---- MODULE Spec2Model ----
(***************************************************************************)
(* The event indexer of aztec-prover-stats (src/unnamed/part_000): main()  *)
(* determines a block range and runs one of three scans over it (proof     *)
(* submissions, slashes, withdrawal exits); each scan walks the range in   *)
(* windows of CHUNK_SIZE blocks, survives a failed window query, then      *)
(* aggregates, sorts and writes one snapshot.                              *)
(*                                                                         *)
(* Values: an address, a transaction hash and a recipient are opaque       *)
(* values.  A JavaScript BigInt is a little-endian sequence of decimal     *)
(* digits without leading zeros (<< >> is 0n), so that amounts beyond the  *)
(* range of machine integers are represented; a decimal string is the      *)
(* sequence of its digits, most significant first.  A JavaScript object    *)
(* used as a map is the sequence of its values in insertion order (the     *)
(* order Object.values and Object.keys give for non-index string keys).    *)
(***************************************************************************)
EXTENDS Integers, Sequences, FiniteSets, TLC

\* ------------------------------------------------------------ constants

CHUNK_SIZE == 10000

EXIT_DELAY_SECONDS == 1209600

\* Bounds of the model.
MaxWindows == 2

MaxProofEvents == 3

MaxSlashEvents == 2

MaxExitEvents == 3

Provers == {"0xA", "0xB", "0xC"}

Attesters == {"0xA", "0xB"}

\* ------------------------------------------------------------ helpers

Min(a, b) == IF a <= b THEN a ELSE b

Max(a, b) == IF a >= b THEN a ELSE b

RECURSIVE Reverse(_)
Reverse(s) == IF s = << >> THEN << >> ELSE Append(Reverse(Tail(s)), Head(s))

\* Sequences over S of length at most n.
SeqsUpTo(S, n) == UNION {[1..k -> S] : k \in 0..n}

\* --- BigInt: little-endian decimal digits, no leading zero digit

RECURSIVE AddDigits(_, _, _)
AddDigits(a, b, carry) ==
  IF a = << >> /\ b = << >>
  THEN IF carry = 0 THEN << >> ELSE <<carry>>
  ELSE LET x == IF a = << >> THEN 0 ELSE Head(a)
           y == IF b = << >> THEN 0 ELSE Head(b)
           s == x + y + carry
       IN  <<s % 10>> \o AddDigits(IF a = << >> THEN a ELSE Tail(a),
                                   IF b = << >> THEN b ELSE Tail(b),
                                   s \div 10)

\* a + b on Number operands: the sum keeps its 16 leading decimal digits.
NumberAdd(a, b) ==
  LET sum == AddDigits(a, b, 0)
  IN  [i \in 1..Len(sum) |-> IF i <= Len(sum) - 16 THEN 0 ELSE sum[i]]

\* a + b on BigInt operands: exact, of unbounded size.
BigAdd(a, b) == AddDigits(a, b, 0)

RECURSIVE BigOf(_)
BigOf(n) == IF n = 0 THEN << >> ELSE <<n % 10>> \o BigOf(n \div 10)

\* 2^128 = 340282366920938463463374607431768211456
TwoPow128 ==
  Reverse(<<3, 4, 0, 2, 8, 2, 3, 6, 6, 9, 2, 0, 9, 3, 8, 4, 6, 3, 4, 6,
            3, 3, 7, 4, 6, 0, 7, 4, 3, 1, 7, 6, 8, 2, 1, 1, 4, 5, 6>>)

\* BigInt.prototype.toString(): the decimal digits, most significant first.
BigToString(a) == IF a = << >> THEN <<0>> ELSE Reverse(a)

\* ------------------------------------------------------------ state

VARIABLES
  pc,            \* where the process is: "main", "loop", "query", "returned", "exited"
  mode,          \* MODE: "proofs", "slash" or "exit"
  fromBlock,     \* main's fromBlock
  toBlock,       \* main's toBlock
  start,         \* the scan loop's start
  queried,       \* history: the windows queried so far, each with its outcome
  returned,      \* history: the events returned by the queries that succeeded
  proverStats,   \* indexProofEvents: the prover records, in insertion order
  totalProofs,   \* indexProofEvents: totalProofs
  attesterStats, \* indexSlashEvents: the attester records, in insertion order
  totalSlashes,  \* indexSlashEvents: totalSlashes
  totalAmountSlashed, \* indexSlashEvents: totalAmountSlashed, a BigInt
  initiatedEvents,  \* indexExitEvents: the WithdrawInitiated events collected
  finalizedEvents,  \* indexExitEvents: the WithdrawFinalized events collected
  blockTimestamps,  \* indexExitEvents: block number -> timestamp
  batchIndex,       \* indexExitEvents: i, the index of the timestamp batch
  files,         \* the snapshot files written, in order
  exitCode,      \* the process exit code, -1 while running
  config,        \* which of SEPOLIA_RPC_URL and ROLLUP_CONTRACT_ADDRESS are set
  requests,      \* history: the number of network requests issued so far
  inFlight,      \* the log queries of the window scan issued and not yet answered
  lookups,       \* history: the block lookups issued, each with its outcome
  dataDir,       \* the snapshot files of the data directory, each with the run that wrote it
  run,           \* the number of this run of the indexer
  display        \* getStats: what displayExitStats has shown, read by read

vars == <<pc, mode, fromBlock, toBlock, start, queried, returned,
          proverStats, totalProofs, attesterStats, totalSlashes, totalAmountSlashed,
          initiatedEvents, finalizedEvents, blockTimestamps, batchIndex, files, exitCode,
          config, requests, inFlight, lookups, dataDir, run, display>>

proofVars == <<proverStats, totalProofs>>

slashVars == <<attesterStats, totalSlashes, totalAmountSlashed>>

exitVars == <<initiatedEvents, finalizedEvents, blockTimestamps, batchIndex>>

scanVars == <<mode, fromBlock, toBlock>>

netVars == <<requests, inFlight, lookups>>

Running == 0 - 1

\* ------------------------------------------------------------ main

\* START_BLOCK: << >> when the variable is unset, <<n>> when parseInt gave n.
StartBlockEnv == {<< >>, <<0>>, <<1>>}

\* The last blocks of the ranges explored: window boundaries.
Spans == {k * CHUNK_SIZE + d : k \in 0..(MaxWindows - 1), d \in {0, CHUNK_SIZE - 1}}

\* END_BLOCK: << >> for 'latest', <<n>> when parseInt gave n.
EndBlockEnv == {<< >>} \cup {<<s>> : s \in Spans}

\* The block heights provider.getBlockNumber() may answer.
Heights == Spans

FromBlockOf(sb) == IF sb = << >> \/ sb[1] = 0 THEN 0 ELSE sb[1]

ToBlockOf(eb, currentBlock) == IF eb = << >> THEN currentBlock ELSE eb[1]

\* The environment: each of the two variables of .env is set or not.
ConfigEnv == [SEPOLIA_RPC_URL : BOOLEAN, ROLLUP_CONTRACT_ADDRESS : BOOLEAN]

\* The two tests main() starts with.
Configured == config.SEPOLIA_RPC_URL /\ config.ROLLUP_CONTRACT_ADDRESS

\* The prefixes of the snapshot file names, one per taxonomy.
Prefix(m) ==
  CASE m = "proofs" -> "prover-stats"
    [] m = "slash" -> "slash-stats"
    [] m = "exit" -> "exit-stats"

\* Date.now(), in milliseconds, at the first write into the data directory.
FirstStamp == 1700000000

\* The data directory when a run starts: empty, or with the snapshots runs of
\* the other two modes have left.
OtherSnapshots(m) ==
  {[prefix |-> Prefix(o), stamp |-> FirstStamp, run |-> 0] :
     o \in {"proofs", "slash", "exit"} \ {m}}

DataDirEnv(m) == {{}, OtherSnapshots(m)}

\* Date.now() at a write: a millisecond later than that of every snapshot of
\* the directory, or the millisecond of one of them (two runs write within
\* one millisecond, or the wall clock was set back in between).
Stamps(dir) ==
  {f.stamp : f \in dir}
    \cup {IF dir = {} THEN FirstStamp
          ELSE 1 + CHOOSE s \in {f.stamp : f \in dir} : \A f \in dir : f.stamp <= s}

\* A file name that carries no creation time.
OutputFileUnstamped(prefix, stamp) == [prefix |-> prefix, stamp |-> 0]

\* path.join(dataDir, `${prefix}-${Date.now()}.json`)
OutputFile(prefix, stamp) == [prefix |-> prefix, stamp |-> stamp]

SameFile(f, outputFile) == f.prefix = outputFile.prefix /\ f.stamp = outputFile.stamp

\* fs.writeFileSync(outputFile, ...) by the run r: the file is created, or
\* truncated and rewritten when a file of that name exists.
WriteFileSync(dir, outputFile, r) ==
  {f \in dir : ~SameFile(f, outputFile)}
    \cup {[prefix |-> outputFile.prefix, stamp |-> outputFile.stamp, run |-> r]}

Init ==
  /\ pc = "main"
  /\ mode \in {"proofs", "slash", "exit"}
  /\ fromBlock = 0
  /\ toBlock = 0
  /\ start = 0
  /\ queried = << >>
  /\ returned = << >>
  /\ proverStats = << >>
  /\ totalProofs = 0
  /\ attesterStats = << >>
  /\ totalSlashes = 0
  /\ totalAmountSlashed = << >>
  /\ initiatedEvents = << >>
  /\ finalizedEvents = << >>
  /\ blockTimestamps = << >>
  /\ batchIndex = 0
  /\ files = << >>
  /\ exitCode = Running
  /\ config \in ConfigEnv
  /\ requests = 0
  /\ inFlight = {}
  /\ lookups = << >>
  /\ dataDir \in DataDirEnv(mode)
  /\ run = 1
  /\ display = << >>

\* ------------------------------------------------------------ the windows

\* A window that takes in the next window's first block.
WindowEndInclusive(s, to) == Min(s + CHUNK_SIZE, to)

WindowEnd(s, to) == Min(s + CHUNK_SIZE - 1, to)

NextStart(s) == s + CHUNK_SIZE

\* ------------------------------------------------------------ the scan loop

\* The window the loop is at, or has last queried.
CurrentWindow == [start |-> start, end |-> WindowEnd(start, toBlock)]

\* The catch block of a window: nothing but a log line, and the loop goes on
\* with the next window.
\* A catch block that gives the scan up.
AbortOnFailure(s) == Max(s, toBlock) + 1

AfterFailure(s) == NextStart(s)

Settle(q, status) == [q EXCEPT ![Len(q)].status = status]

\* contract.queryFilter(filter, start, end): a log query for the events of
\* one kind in the window the loop is at.
LogQuery(event) == [event |-> event, start |-> start, end |-> WindowEnd(start, toBlock)]

\* ------------------------------------------------------------ sorting

\* The comparators handed to Array.prototype.sort.
\* The comparator of an ascending sort.
CompareProofCountAscending(a, b) == a.proofCount - b.proofCount

CompareProofCount(a, b) == b.proofCount - a.proofCount

CompareSlashCount(a, b) == b.slashCount - a.slashCount

\* The comparator of a descending sort.
CompareExitableAtDescending(a, b) == b.exitableAt - a.exitableAt

CompareExitableAt(a, b) == a.exitableAt - b.exitableAt

CompareInitiatedCount(a, b) == b.initiatedCount - a.initiatedCount

Compare(kind, a, b) ==
  CASE kind = "proofCount" -> CompareProofCount(a, b)
    [] kind = "slashCount" -> CompareSlashCount(a, b)
    [] kind = "exitableAt" -> CompareExitableAt(a, b)
    [] kind = "initiatedCount" -> CompareInitiatedCount(a, b)

\* Array.prototype.sort is stable: x goes behind every element that does not
\* compare greater than it.
RECURSIVE InsertSorted(_, _, _)
InsertSorted(kind, sorted, x) ==
  IF sorted = << >> THEN <<x>>
  ELSE IF Compare(kind, Head(sorted), x) > 0
       THEN <<x>> \o sorted
       ELSE <<Head(sorted)>> \o InsertSorted(kind, Tail(sorted), x)

RECURSIVE SortFrom(_, _, _)
SortFrom(kind, sorted, rest) ==
  IF rest = << >> THEN sorted
  ELSE SortFrom(kind, InsertSorted(kind, sorted, Head(rest)), Tail(rest))

Sort(kind, s) == SortFrom(kind, << >>, s)

\* ------------------------------------------------------------ indexProofEvents

\* The position of the record of addr in a map of records, 0 when it has none.
IndexOfAddress(stats, addr) ==
  IF \E i \in 1..Len(stats) : stats[i].address = addr
  THEN CHOOSE i \in 1..Len(stats) : stats[i].address = addr
  ELSE 0

\* The L2ProofVerified events a window answers with: the k-th event the scan
\* receives proves L2 block k in transaction k, in a block of the window.
ProofEvents(ps, n, w) ==
  [i \in 1..Len(ps) |->
     [args |-> [blockNumber |-> BigOf(n + i), proverId |-> ps[i]],
      transactionHash |-> n + i,
      blockNumber |-> IF i = 1 THEN w.start ELSE w.end]]

NewProver(proverId) == [address |-> proverId, proofCount |-> 0, blocks |-> << >>]

\* A loop body that counts an event only when it creates the prover's record.
ProofEventCountedOnCreate(st, event) ==
  LET proverId == event.args.proverId
      known    == IndexOfAddress(st.proverStats, proverId)
      stats    == IF known = 0 THEN Append(st.proverStats, NewProver(proverId))
                  ELSE st.proverStats
      i        == IF known = 0 THEN Len(stats) ELSE known
      block    == [blockNumber    |-> BigToString(event.args.blockNumber),
                   txHash         |-> event.transactionHash,
                   ethBlockNumber |-> event.blockNumber]
  IN  [proverStats |-> [stats EXCEPT ![i].proofCount = @ + 1,
                                     ![i].blocks = Append(@, block)],
       totalProofs |-> IF known = 0 THEN st.totalProofs + 1 ELSE st.totalProofs]

\* One pass of the loop over the events of a window.
ProofEvent(st, event) ==
  LET proverId == event.args.proverId
      known    == IndexOfAddress(st.proverStats, proverId)
      stats    == IF known = 0 THEN Append(st.proverStats, NewProver(proverId))
                  ELSE st.proverStats
      i        == IF known = 0 THEN Len(stats) ELSE known
      block    == [blockNumber    |-> BigToString(event.args.blockNumber),
                   txHash         |-> event.transactionHash,
                   ethBlockNumber |-> event.blockNumber]
  IN  [proverStats |-> [stats EXCEPT ![i].proofCount = @ + 1,
                                     ![i].blocks = Append(@, block)],
       totalProofs |-> st.totalProofs + 1]

RECURSIVE ProofEventsLoop(_, _)
ProofEventsLoop(st, events) ==
  IF events = << >> THEN st
  ELSE ProofEventsLoop(ProofEvent(st, Head(events)), Tail(events))

\* Object.keys(stats).length
UniqueCount(stats) == Len(stats)

ProofOutput(stats, total) ==
  [blockRange |-> [from |-> fromBlock, to |-> toBlock],
   summary    |-> [totalProofs |-> total, uniqueProvers |-> UniqueCount(stats)],
   provers    |-> Sort("proofCount", stats)]

\* A main() that asks for the block height before it looks at its configuration.
MainMissingConfigLate ==
  /\ pc = "main"
  /\ ~Configured
  /\ requests' = requests + 1
  /\ exitCode' = 1
  /\ pc' = "exited"
  /\ UNCHANGED <<config, run, display, scanVars, start, queried, returned, proofVars, slashVars,
                 exitVars, files, inFlight, lookups, dataDir>>

\* main(): a variable of the configuration is not set: process.exit(1).
MainMissingConfig ==
  /\ pc = "main"
  /\ ~Configured
  /\ exitCode' = 1
  /\ pc' = "exited"
  /\ UNCHANGED <<config, run, display, scanVars, start, queried, returned, proofVars, slashVars,
                 exitVars, files, netVars, dataDir>>

\* main(): provider.getBlockNumber() throws, and main() rejects.
MainHeightFail ==
  /\ pc = "main"
  /\ Configured
  /\ requests' = requests + 1
  /\ pc' = "rejected"
  /\ UNCHANGED <<config, run, display, scanVars, start, queried, returned, proofVars, slashVars,
                 exitVars, files, exitCode, inFlight, lookups, dataDir>>

\* main(): the block height is asked for, the range is determined and the scan
\* of the mode is entered.
Main ==
  /\ pc = "main"
  /\ Configured
  /\ requests' = requests + 1
  /\ \E sb \in StartBlockEnv, eb \in EndBlockEnv, currentBlock \in Heights :
       /\ fromBlock' = FromBlockOf(sb)
       /\ toBlock' = ToBlockOf(eb, currentBlock)
       /\ start' = FromBlockOf(sb)
  /\ pc' = "loop"
  /\ UNCHANGED <<config, run, display, mode, queried, returned, proofVars, slashVars, exitVars,
                 files, exitCode, inFlight, lookups, dataDir>>

\* The loop test passes and the window's query is issued.
ProofQuery ==
  /\ pc = "loop" /\ mode = "proofs"
  /\ start <= toBlock
  /\ queried' = Append(queried, [start |-> start, end |-> WindowEnd(start, toBlock),
                                 status |-> "pending"])
  /\ requests' = requests + 1
  /\ inFlight' = inFlight \cup {LogQuery("L2ProofVerified")}
  /\ pc' = "query"
  /\ UNCHANGED <<config, run, display, scanVars, start, returned, proofVars, slashVars, exitVars,
                 files, exitCode, lookups, dataDir>>

\* The query answers: every event is counted, and the loop steps on.
ProofReturn ==
  /\ pc = "query" /\ mode = "proofs"
  /\ \E ps \in SeqsUpTo(Provers, MaxProofEvents - Len(returned)) :
       LET events == ProofEvents(ps, Len(returned), CurrentWindow)
           st     == ProofEventsLoop([proverStats |-> proverStats,
                                      totalProofs |-> totalProofs], events)
       IN  /\ proverStats' = st.proverStats
           /\ totalProofs' = st.totalProofs
           /\ returned' = returned \o events
  /\ queried' = Settle(queried, "ok")
  /\ inFlight' = inFlight \ {LogQuery("L2ProofVerified")}
  /\ start' = NextStart(start)
  /\ pc' = "loop"
  /\ UNCHANGED <<config, run, display, scanVars, slashVars, exitVars, files, exitCode,
                 requests, lookups, dataDir>>

\* A catch block that drops what the scan has counted so far.
ProofFailReset ==
  /\ pc = "query" /\ mode = "proofs"
  /\ queried' = Settle(queried, "failed")
  /\ inFlight' = inFlight \ {LogQuery("L2ProofVerified")}
  /\ proverStats' = << >>
  /\ totalProofs' = 0
  /\ start' = AfterFailure(start)
  /\ pc' = "loop"
  /\ UNCHANGED <<config, run, display, scanVars, returned, slashVars, exitVars,
                 files, exitCode, requests, lookups, dataDir>>

\* A catch block that throws the error on: indexProofEvents and main() reject.
ProofFailRethrown ==
  /\ pc = "query" /\ mode = "proofs"
  /\ queried' = Settle(queried, "failed")
  /\ inFlight' = inFlight \ {LogQuery("L2ProofVerified")}
  /\ pc' = "rejected"
  /\ UNCHANGED <<config, run, display, scanVars, start, returned, proofVars, slashVars,
                 exitVars, files, exitCode, requests, lookups, dataDir>>

\* The query throws: the catch block logs, and the loop steps on.
ProofFail ==
  /\ pc = "query" /\ mode = "proofs"
  /\ queried' = Settle(queried, "failed")
  /\ inFlight' = inFlight \ {LogQuery("L2ProofVerified")}
  /\ start' = AfterFailure(start)
  /\ pc' = "loop"
  /\ UNCHANGED <<config, run, display, scanVars, returned, proofVars, slashVars, exitVars,
                 files, exitCode, requests, lookups, dataDir>>

\* The loop test fails: the provers are sorted and the snapshot is written.
ProofFinish ==
  /\ pc = "loop" /\ mode = "proofs"
  /\ ~(start <= toBlock)
  /\ \E stamp \in Stamps(dataDir) :
       /\ files' = Append(files, [name |-> "prover-stats", stamp |-> stamp,
                                  data |-> ProofOutput(proverStats, totalProofs)])
       /\ dataDir' = WriteFileSync(dataDir, OutputFile("prover-stats", stamp), run)
  /\ pc' = "returned"
  /\ UNCHANGED <<config, run, display, scanVars, start, queried, returned, proofVars, slashVars,
                 exitVars, exitCode, netVars>>

\* ------------------------------------------------------------ indexSlashEvents

\* The amounts of the Slashed events: BigInt values, 2^128 among them.
SlashAmounts == {BigOf(10), BigOf(20), TwoPow128}

\* The Slashed events a window answers with.
SlashEvents(es, n, w) ==
  [i \in 1..Len(es) |->
     [args |-> [attester |-> es[i][1], amount |-> es[i][2]],
      transactionHash |-> n + i,
      blockNumber |-> IF i = 1 THEN w.start ELSE w.end]]

NewSlashed(attester) ==
  [address |-> attester, slashCount |-> 0, totalAmountSlashed |-> << >>,
   slashes |-> << >>]

\* A pass that counts the slash in the record only when it creates the record.
SlashEventCountedOnCreate(st, event) ==
  LET attester == event.args.attester
      amount   == event.args.amount
      known    == IndexOfAddress(st.attesterStats, attester)
      stats    == IF known = 0 THEN Append(st.attesterStats, NewSlashed(attester))
                  ELSE st.attesterStats
      i        == IF known = 0 THEN Len(stats) ELSE known
      slash    == [amount         |-> BigToString(amount),
                   txHash         |-> event.transactionHash,
                   ethBlockNumber |-> event.blockNumber]
  IN  [attesterStats |-> [stats EXCEPT ![i].slashCount = IF known = 0 THEN @ + 1 ELSE @,
                                       ![i].totalAmountSlashed = BigAdd(@, amount),
                                       ![i].slashes = Append(@, slash)],
       totalSlashes |-> st.totalSlashes + 1,
       totalAmountSlashed |-> BigAdd(st.totalAmountSlashed, amount)]

\* One pass of the loop over the events of a window.
SlashEvent(st, event) ==
  LET attester == event.args.attester
      amount   == event.args.amount
      known    == IndexOfAddress(st.attesterStats, attester)
      stats    == IF known = 0 THEN Append(st.attesterStats, NewSlashed(attester))
                  ELSE st.attesterStats
      i        == IF known = 0 THEN Len(stats) ELSE known
      slash    == [amount         |-> BigToString(amount),
                   txHash         |-> event.transactionHash,
                   ethBlockNumber |-> event.blockNumber]
  IN  [attesterStats |-> [stats EXCEPT ![i].slashCount = @ + 1,
                                       ![i].totalAmountSlashed = BigAdd(@, amount),
                                       ![i].slashes = Append(@, slash)],
       totalSlashes |-> st.totalSlashes + 1,
       totalAmountSlashed |-> BigAdd(st.totalAmountSlashed, amount)]

RECURSIVE SlashEventsLoop(_, _)
SlashEventsLoop(st, events) ==
  IF events = << >> THEN st
  ELSE SlashEventsLoop(SlashEvent(st, Head(events)), Tail(events))

\* .map(a => ({...a, totalAmountSlashed: a.totalAmountSlashed.toString()}))
SlashAmountsToString(stats) ==
  [i \in 1..Len(stats) |->
     [stats[i] EXCEPT !.totalAmountSlashed = BigToString(@)]]

SlashOutput(stats, total, amount) ==
  [blockRange |-> [from |-> fromBlock, to |-> toBlock],
   summary    |-> [totalSlashes |-> total,
                   totalAmountSlashed |-> BigToString(amount),
                   uniqueAttesters |-> UniqueCount(stats)],
   attesters  |-> Sort("slashCount", SlashAmountsToString(stats))]

\* The loop test passes and the window's query is issued.
SlashQuery ==
  /\ pc = "loop" /\ mode = "slash"
  /\ start <= toBlock
  /\ queried' = Append(queried, [start |-> start, end |-> WindowEnd(start, toBlock),
                                 status |-> "pending"])
  /\ requests' = requests + 1
  /\ inFlight' = inFlight \cup {LogQuery("Slashed")}
  /\ pc' = "query"
  /\ UNCHANGED <<config, run, display, scanVars, start, returned, proofVars, slashVars, exitVars,
                 files, exitCode, lookups, dataDir>>

\* The query answers: every event is added up, and the loop steps on.
SlashReturn ==
  /\ pc = "query" /\ mode = "slash"
  /\ \E es \in SeqsUpTo(Attesters \X SlashAmounts, MaxSlashEvents - Len(returned)) :
       LET events == SlashEvents(es, Len(returned), CurrentWindow)
           st     == SlashEventsLoop([attesterStats |-> attesterStats,
                                      totalSlashes |-> totalSlashes,
                                      totalAmountSlashed |-> totalAmountSlashed],
                                     events)
       IN  /\ attesterStats' = st.attesterStats
           /\ totalSlashes' = st.totalSlashes
           /\ totalAmountSlashed' = st.totalAmountSlashed
           /\ returned' = returned \o events
  /\ queried' = Settle(queried, "ok")
  /\ inFlight' = inFlight \ {LogQuery("Slashed")}
  /\ start' = NextStart(start)
  /\ pc' = "loop"
  /\ UNCHANGED <<config, run, display, scanVars, proofVars, exitVars, files, exitCode,
                 requests, lookups, dataDir>>

\* The query throws: the catch block logs, and the loop steps on.
SlashFail ==
  /\ pc = "query" /\ mode = "slash"
  /\ queried' = Settle(queried, "failed")
  /\ inFlight' = inFlight \ {LogQuery("Slashed")}
  /\ start' = AfterFailure(start)
  /\ pc' = "loop"
  /\ UNCHANGED <<config, run, display, scanVars, returned, proofVars, slashVars, exitVars,
                 files, exitCode, requests, lookups, dataDir>>

\* The loop test fails: the attesters are sorted and the snapshot is written.
SlashFinish ==
  /\ pc = "loop" /\ mode = "slash"
  /\ ~(start <= toBlock)
  /\ \E stamp \in Stamps(dataDir) :
       /\ files' = Append(files, [name |-> "slash-stats", stamp |-> stamp,
                                  data |-> SlashOutput(attesterStats, totalSlashes,
                                                       totalAmountSlashed)])
       /\ dataDir' = WriteFileSync(dataDir, OutputFile("slash-stats", stamp), run)
  /\ pc' = "returned"
  /\ UNCHANGED <<config, run, display, scanVars, start, queried, returned, proofVars, slashVars,
                 exitVars, exitCode, netVars>>

\* ------------------------------------------------------------ indexExitEvents

\* The chain's clock: the timestamp of block bn, as provider.getBlock answers it.
GenesisTime == 1000000

SecondsPerBlock == 12

BlockTime(bn) == GenesisTime + SecondsPerBlock * bn

\* The blocks looked up together.
TimestampBatch == 10

\* What a window answers with: WithdrawInitiated events, each of an attester
\* in the window's first or last block, in block order, and WithdrawFinalized
\* events, each of an attester.
InitiatedChoices(n) ==
  {es \in SeqsUpTo(Attesters \X {0, 1}, n) :
     \A k \in 1..(Len(es) - 1) : es[k][2] <= es[k + 1][2]}

FinalizedChoices(n) == SeqsUpTo(Attesters, n)

InitiatedEvents(es, n, w) ==
  [k \in 1..Len(es) |->
     [args |-> [attester |-> es[k][1], recipient |-> "0xR", amount |-> BigOf(500)],
      transactionHash |-> n + k,
      blockNumber |-> IF es[k][2] = 0 THEN w.start ELSE w.end]]

FinalizedEvents(as, n, w) ==
  [k \in 1..Len(as) |->
     [args |-> [attester |-> as[k], recipient |-> "0xR", amount |-> BigOf(500)],
      transactionHash |-> n + k,
      blockNumber |-> w.end]]

\* [...new Set(events.map(e => e.blockNumber))]: first occurrences, in order.
RECURSIVE UniqueBlocksFrom(_, _)
UniqueBlocksFrom(seen, events) ==
  IF events = << >> THEN seen
  ELSE UniqueBlocksFrom(
         IF \E k \in 1..Len(seen) : seen[k] = Head(events).blockNumber
         THEN seen ELSE Append(seen, Head(events).blockNumber),
         Tail(events))

\* The blocks of every collected event, finalized events included.
UniqueBlocksOfAllEvents == UniqueBlocksFrom(<< >>, initiatedEvents \o finalizedEvents)

UniqueBlocks == UniqueBlocksFrom(<< >>, initiatedEvents)

\* uniqueBlocks.slice(i, i + 10)
Batch ==
  SubSeq(UniqueBlocks, batchIndex + 1, Min(batchIndex + TimestampBatch, Len(UniqueBlocks)))

NewExitAttester(attester) ==
  [address |-> attester, initiatedCount |-> 0, finalizedCount |-> 0,
   totalInitiatedAmount |-> << >>, totalFinalizedAmount |-> << >>,
   initiated |-> << >>, finalized |-> << >>]

ExitableAt(timestamp) == timestamp + EXIT_DELAY_SECONDS

\* An exit that can be finalized only after the second it becomes exitable.
CanFinalizeStrictlyAfter(now, exitableAt) == now > exitableAt

CanFinalize(now, exitableAt) == now >= exitableAt

\* One pass of the loop over the initiated events.
InitiatedEvent(stats, event, now) ==
  LET attester   == event.args.attester
      timestamp  == blockTimestamps[event.blockNumber]
      exitableAt == ExitableAt(timestamp)
      known      == IndexOfAddress(stats, attester)
      withRecord == IF known = 0 THEN Append(stats, NewExitAttester(attester)) ELSE stats
      k          == IF known = 0 THEN Len(withRecord) ELSE known
      record     == [recipient      |-> event.args.recipient,
                     amount         |-> BigToString(event.args.amount),
                     txHash         |-> event.transactionHash,
                     ethBlockNumber |-> event.blockNumber,
                     timestamp      |-> timestamp,
                     exitableAt     |-> exitableAt,
                     canFinalize    |-> CanFinalize(now, exitableAt)]
  IN  [withRecord EXCEPT ![k].initiatedCount = @ + 1,
                         ![k].totalInitiatedAmount = BigAdd(@, event.args.amount),
                         ![k].initiated = Append(@, record)]

RECURSIVE InitiatedLoop(_, _, _)
InitiatedLoop(stats, events, now) ==
  IF events = << >> THEN stats
  ELSE InitiatedLoop(InitiatedEvent(stats, Head(events), now), Tail(events), now)

\* A pass that skips the finalized event of an attester without a record.
FinalizedEventOfKnownAttester(stats, event) ==
  LET attester == event.args.attester
      k        == IndexOfAddress(stats, attester)
      record   == [recipient      |-> event.args.recipient,
                   amount         |-> BigToString(event.args.amount),
                   txHash         |-> event.transactionHash,
                   ethBlockNumber |-> event.blockNumber]
  IN  IF k = 0 THEN stats
      ELSE [stats EXCEPT ![k].finalizedCount = @ + 1,
                         ![k].totalFinalizedAmount = BigAdd(@, event.args.amount),
                         ![k].finalized = Append(@, record)]

\* One pass of the loop over the finalized events.
FinalizedEvent(stats, event) ==
  LET attester   == event.args.attester
      known      == IndexOfAddress(stats, attester)
      withRecord == IF known = 0 THEN Append(stats, NewExitAttester(attester)) ELSE stats
      k          == IF known = 0 THEN Len(withRecord) ELSE known
      record     == [recipient      |-> event.args.recipient,
                     amount         |-> BigToString(event.args.amount),
                     txHash         |-> event.transactionHash,
                     ethBlockNumber |-> event.blockNumber]
  IN  [withRecord EXCEPT ![k].finalizedCount = @ + 1,
                         ![k].totalFinalizedAmount = BigAdd(@, event.args.amount),
                         ![k].finalized = Append(@, record)]

RECURSIVE FinalizedLoop(_, _)
FinalizedLoop(stats, events) ==
  IF events = << >> THEN stats
  ELSE FinalizedLoop(FinalizedEvent(stats, Head(events)), Tail(events))

\* Array.prototype.slice(begin): from begin, counted from the end when negative.
JsSlice(s, begin) ==
  LET from == IF begin < 0 THEN Max(Len(s) + begin, 0) ELSE Min(begin, Len(s))
  IN  SubSeq(s, from + 1, Len(s))

PendingCount(attester) == attester.initiatedCount - attester.finalizedCount

\* A test that lets a pendingCount of 0 through, to slice(-0).
HasPendingOrNone(pendingCount) == pendingCount >= 0

HasPending(pendingCount) == pendingCount > 0

\* attester.initiated.slice(0, pendingCount): the oldest entries.
UnfinalizedOldest(attester, pendingCount) == SubSeq(attester.initiated, 1, pendingCount)

\* attester.initiated.slice(-pendingCount)
Unfinalized(attester, pendingCount) == JsSlice(attester.initiated, 0 - pendingCount)

\* A loop body that counts every exit as one that can be finalized.
CountExitAsFinalizable(sum, address, exit) ==
  [sum EXCEPT
     !.pendingCanFinalize = @ + 1,
     !.pendingExits = Append(@, [attester |-> address] @@ exit)]

\* One pass of the loop over the unfinalized exits of an attester.
CountExit(sum, address, exit) ==
  [sum EXCEPT
     !.pendingCanFinalize = IF exit.canFinalize THEN @ + 1 ELSE @,
     !.pendingCannotFinalize = IF exit.canFinalize THEN @ ELSE @ + 1,
     !.pendingExits = Append(@, [attester |-> address] @@ exit)]

RECURSIVE CountExits(_, _, _)
CountExits(sum, address, exits) ==
  IF exits = << >> THEN sum
  ELSE CountExits(CountExit(sum, address, Head(exits)), address, Tail(exits))

\* One pass of the loop over the attesters.
SummaryAttester(sum, attester) ==
  LET counted == [sum EXCEPT !.totalInitiated = @ + attester.initiatedCount,
                             !.totalFinalized = @ + attester.finalizedCount]
      pendingCount == PendingCount(attester)
  IN  IF HasPending(pendingCount)
      THEN CountExits(counted, attester.address, Unfinalized(attester, pendingCount))
      ELSE counted

RECURSIVE SummaryLoop(_, _)
SummaryLoop(sum, stats) ==
  IF stats = << >> THEN sum
  ELSE SummaryLoop(SummaryAttester(sum, Head(stats)), Tail(stats))

\* .map(a => ({...a, totalInitiatedAmount: ..., totalFinalizedAmount: ...}))
ExitAmountsToString(stats) ==
  [k \in 1..Len(stats) |->
     [stats[k] EXCEPT !.totalInitiatedAmount = BigToString(@),
                      !.totalFinalizedAmount = BigToString(@)]]

\* A totalPending taken from the two totals.
TotalPendingFromTotals(pendingExits, totalInitiated, totalFinalized) ==
  totalInitiated - totalFinalized

\* summary.totalPending
TotalPending(pendingExits, totalInitiated, totalFinalized) == Len(pendingExits)

ExitOutput(now) ==
  LET stats == FinalizedLoop(InitiatedLoop(<< >>, initiatedEvents, now), finalizedEvents)
      sum   == SummaryLoop([totalInitiated |-> 0, totalFinalized |-> 0,
                            pendingCanFinalize |-> 0, pendingCannotFinalize |-> 0,
                            pendingExits |-> << >>], stats)
      pendingExits == Sort("exitableAt", sum.pendingExits)
  IN  [currentTimestamp |-> now,
       blockRange |-> [from |-> fromBlock, to |-> toBlock],
       summary |-> [totalInitiated |-> sum.totalInitiated,
                    totalFinalized |-> sum.totalFinalized,
                    totalPending |-> TotalPending(pendingExits, sum.totalInitiated,
                                                  sum.totalFinalized),
                    pendingCanFinalize |-> sum.pendingCanFinalize,
                    pendingCannotFinalize |-> sum.pendingCannotFinalize,
                    uniqueAttesters |-> UniqueCount(stats)],
       pendingExits |-> pendingExits,
       attesters |-> Sort("initiatedCount", ExitAmountsToString(stats))]

\* Math.floor(Date.now() / 1000): the second in which an exit of a collected
\* block (of the last block of the range, when no exit was collected) becomes
\* exitable, or the second before the first of them.
NowChoices ==
  LET blocks == IF UniqueBlocks = << >> THEN {toBlock}
                ELSE {UniqueBlocks[k] : k \in 1..Len(UniqueBlocks)}
      first  == CHOOSE b \in blocks : \A c \in blocks : b <= c
  IN  {ExitableAt(BlockTime(first)) - 1} \cup {ExitableAt(BlockTime(b)) : b \in blocks}

CollectedExits == Len(initiatedEvents) + Len(finalizedEvents)

\* The two queries Promise.all waits for.
WindowQueries == {LogQuery("WithdrawInitiated"), LogQuery("WithdrawFinalized")}

\* The lookups issued and not yet answered.
PendingLookups == {k \in 1..Len(lookups) : lookups[k].status = "pending"}

\* The loop test passes and the window's two queries are issued.
ExitQuery ==
  /\ pc = "loop" /\ mode = "exit"
  /\ start <= toBlock
  /\ queried' = Append(queried, [start |-> start, end |-> WindowEnd(start, toBlock),
                                 status |-> "pending"])
  /\ requests' = requests + 2
  /\ inFlight' = inFlight \cup WindowQueries
  /\ pc' = "query"
  /\ UNCHANGED <<config, run, display, scanVars, start, returned, proofVars, slashVars, exitVars,
                 files, exitCode, lookups, dataDir>>

\* A loop that goes on as soon as the WithdrawInitiated query has answered.
ExitReturnAtFirstAnswer ==
  /\ pc = "query" /\ mode = "exit"
  /\ \E es \in InitiatedChoices(MaxExitEvents - CollectedExits) :
       \E as \in FinalizedChoices(MaxExitEvents - CollectedExits - Len(es)) :
         /\ initiatedEvents' =
              initiatedEvents \o InitiatedEvents(es, CollectedExits, CurrentWindow)
         /\ finalizedEvents' =
              finalizedEvents \o FinalizedEvents(as, CollectedExits + Len(es), CurrentWindow)
  /\ queried' = Settle(queried, "ok")
  /\ inFlight' = inFlight \ {LogQuery("WithdrawInitiated")}
  /\ start' = NextStart(start)
  /\ pc' = "loop"
  /\ UNCHANGED <<config, run, display, scanVars, returned, proofVars, slashVars, blockTimestamps,
                 batchIndex, files, exitCode, requests, lookups, dataDir>>

\* Both queries answer: their events are collected, and the loop steps on.
ExitReturn ==
  /\ pc = "query" /\ mode = "exit"
  /\ \E es \in InitiatedChoices(MaxExitEvents - CollectedExits) :
       \E as \in FinalizedChoices(MaxExitEvents - CollectedExits - Len(es)) :
         /\ initiatedEvents' =
              initiatedEvents \o InitiatedEvents(es, CollectedExits, CurrentWindow)
         /\ finalizedEvents' =
              finalizedEvents \o FinalizedEvents(as, CollectedExits + Len(es), CurrentWindow)
  /\ queried' = Settle(queried, "ok")
  /\ inFlight' = inFlight \ WindowQueries
  /\ start' = NextStart(start)
  /\ pc' = "loop"
  /\ UNCHANGED <<config, run, display, scanVars, returned, proofVars, slashVars, blockTimestamps,
                 batchIndex, files, exitCode, requests, lookups, dataDir>>

\* A catch block that keeps what the WithdrawInitiated query answered when the
\* WithdrawFinalized query throws.
ExitFailKeepsAnswered ==
  /\ pc = "query" /\ mode = "exit"
  /\ \E es \in InitiatedChoices(MaxExitEvents - CollectedExits) :
       initiatedEvents' = initiatedEvents \o InitiatedEvents(es, CollectedExits, CurrentWindow)
  /\ inFlight' = inFlight \ WindowQueries
  /\ queried' = Settle(queried, "failed")
  /\ start' = AfterFailure(start)
  /\ pc' = "loop"
  /\ UNCHANGED <<config, run, display, scanVars, returned, proofVars, slashVars,
                 finalizedEvents, blockTimestamps, batchIndex,
                 files, exitCode, requests, lookups, dataDir>>

\* One of the two queries throws, and Promise.all rejects at once, whether the
\* other query has answered or not: the catch block logs, and the loop steps
\* on. A query that has not answered stays in flight.
ExitFail ==
  /\ pc = "query" /\ mode = "exit"
  /\ \E failed \in WindowQueries, otherAnswered \in BOOLEAN :
       inFlight' = IF otherAnswered THEN inFlight \ WindowQueries ELSE inFlight \ {failed}
  /\ queried' = Settle(queried, "failed")
  /\ start' = AfterFailure(start)
  /\ pc' = "loop"
  /\ UNCHANGED <<config, run, display, scanVars, returned, proofVars, slashVars, exitVars,
                 files, exitCode, requests, lookups, dataDir>>

\* A query of a window that has failed answers or throws: nobody waits for it.
ExitLateAnswer ==
  /\ mode = "exit"
  /\ pc \in {"loop", "query"}
  /\ \E q \in inFlight :
       /\ pc = "query" => q \notin WindowQueries
       /\ inFlight' = inFlight \ {q}
  /\ UNCHANGED <<config, run, display, scanVars, start, queried, returned, proofVars, slashVars,
                 exitVars, files, exitCode, pc, requests, lookups, dataDir>>

\* A loop that is left after its first window.
ExitScanEndAfterFirstWindow ==
  /\ pc = "loop" /\ mode = "exit"
  /\ queried # << >> \/ ~(start <= toBlock)
  /\ batchIndex' = 0
  /\ inFlight' = {}
  /\ pc' = "timestamps"
  /\ UNCHANGED <<config, run, display, scanVars, start, queried, returned, proofVars, slashVars,
                 initiatedEvents, finalizedEvents, blockTimestamps, files, exitCode,
                 requests, lookups, dataDir>>

\* The loop test fails: the timestamp loop is entered. The window scan is
\* over, and a log query still in flight is followed no further.
ExitScanEnd ==
  /\ pc = "loop" /\ mode = "exit"
  /\ ~(start <= toBlock)
  /\ batchIndex' = 0
  /\ inFlight' = {}
  /\ pc' = "timestamps"
  /\ UNCHANGED <<config, run, display, scanVars, start, queried, returned, proofVars, slashVars,
                 initiatedEvents, finalizedEvents, blockTimestamps, files, exitCode,
                 requests, lookups, dataDir>>

\* The lookups of the next batch of blocks are issued.
ExitBatchIssue ==
  /\ pc = "timestamps"
  /\ batchIndex < Len(UniqueBlocks)
  /\ lookups' = lookups \o [k \in 1..Len(Batch) |-> [block |-> Batch[k], status |-> "pending"]]
  /\ requests' = requests + Len(Batch)
  /\ pc' = "lookup"
  /\ UNCHANGED <<config, run, display, scanVars, start, queried, returned, proofVars, slashVars,
                 exitVars, files, exitCode, inFlight, dataDir>>

\* provider.getBlock(bn) of one block of the batch answers.
ExitLookupAnswer ==
  /\ pc = "lookup"
  /\ \E k \in PendingLookups : lookups' = [lookups EXCEPT ![k].status = "ok"]
  /\ UNCHANGED <<config, run, display, scanVars, start, queried, returned, proofVars, slashVars,
                 exitVars, files, exitCode, pc, requests, inFlight, dataDir>>

\* A loop that steps to the next batch without waiting for the whole batch.
ExitBatchReturnAtFirstAnswer ==
  /\ pc = "lookup"
  /\ \E k \in 1..Len(lookups) : lookups[k].status = "ok"
  /\ LET blocks == {Batch[k] : k \in 1..Len(Batch)}
     IN  blockTimestamps' =
           [b \in DOMAIN blockTimestamps \cup blocks |->
              IF b \in blocks THEN BlockTime(b) ELSE blockTimestamps[b]]
  /\ batchIndex' = batchIndex + TimestampBatch
  /\ pc' = "timestamps"
  /\ UNCHANGED <<config, run, display, scanVars, start, queried, returned, proofVars, slashVars,
                 initiatedEvents, finalizedEvents, files, exitCode, netVars, dataDir>>

\* Every lookup of the batch has answered: Promise.all resolves, the
\* timestamps are stored, and the loop steps to the next batch.
ExitBatchReturn ==
  /\ pc = "lookup"
  /\ PendingLookups = {}
  /\ LET blocks == {Batch[k] : k \in 1..Len(Batch)}
     IN  blockTimestamps' =
           [b \in DOMAIN blockTimestamps \cup blocks |->
              IF b \in blocks THEN BlockTime(b) ELSE blockTimestamps[b]]
  /\ batchIndex' = batchIndex + TimestampBatch
  /\ pc' = "timestamps"
  /\ UNCHANGED <<config, run, display, scanVars, start, queried, returned, proofVars, slashVars,
                 initiatedEvents, finalizedEvents, files, exitCode, netVars, dataDir>>

\* A lookup failure that is caught and logged like a window failure: the scan
\* returns without a snapshot.
ExitBatchFailCaught ==
  /\ pc = "lookup"
  /\ \E k \in PendingLookups : lookups' = [lookups EXCEPT ![k].status = "failed"]
  /\ pc' = "returned"
  /\ UNCHANGED <<config, run, display, scanVars, start, queried, returned, proofVars, slashVars,
                 exitVars, files, exitCode, requests, inFlight, dataDir>>

\* A lookup of the batch throws: Promise.all rejects, and with it
\* indexExitEvents and main().
ExitBatchFail ==
  /\ pc = "lookup"
  /\ \E k \in PendingLookups : lookups' = [lookups EXCEPT ![k].status = "failed"]
  /\ pc' = "rejected"
  /\ UNCHANGED <<config, run, display, scanVars, start, queried, returned, proofVars, slashVars,
                 exitVars, files, exitCode, requests, inFlight, dataDir>>

\* Every batch is in: the exits are aggregated and the snapshot is written.
ExitFinish ==
  /\ pc = "timestamps"
  /\ ~(batchIndex < Len(UniqueBlocks))
  /\ \E now \in NowChoices, stamp \in Stamps(dataDir) :
       /\ files' = Append(files, [name |-> "exit-stats", stamp |-> stamp,
                                  data |-> ExitOutput(now)])
       /\ dataDir' = WriteFileSync(dataDir, OutputFile("exit-stats", stamp), run)
  /\ pc' = "returned"
  /\ UNCHANGED <<config, run, display, scanVars, start, queried, returned, proofVars, slashVars,
                 exitVars, exitCode, netVars>>

\* main() rejected: process.exit(1).
ExitFatal ==
  /\ pc = "rejected"
  /\ exitCode' = 1
  /\ inFlight' = {}
  /\ pc' = "exited"
  /\ UNCHANGED <<config, run, display, scanVars, start, queried, returned, proofVars, slashVars,
                 exitVars, files, requests, lookups, dataDir>>

\* main() resolved: process.exit(0).
ExitOk ==
  /\ pc = "returned"
  /\ exitCode' = 0
  /\ inFlight' = {}
  /\ pc' = "exited"
  /\ UNCHANGED <<config, run, display, scanVars, start, queried, returned, proofVars, slashVars,
                 exitVars, files, requests, lookups, dataDir>>

InitProof == Init /\ mode = "proofs" /\ dataDir = {}

NextProof ==
  \/ MainMissingConfig \/ MainHeightFail \/ Main
  \/ ProofQuery \/ ProofReturn \/ ProofFail \/ ProofFinish
  \/ ExitFatal \/ ExitOk

SpecProof == InitProof /\ [][NextProof]_vars

\* Every step main() can take is taken in the end: the event loop runs, and a
\* query that was issued answers or fails.
SpecProofFair == SpecProof /\ WF_vars(NextProof)

InitSlash == Init /\ mode = "slash" /\ dataDir = {}

NextSlash ==
  \/ MainMissingConfig \/ MainHeightFail \/ Main
  \/ SlashQuery \/ SlashReturn \/ SlashFail \/ SlashFinish
  \/ ExitFatal \/ ExitOk

SpecSlash == InitSlash /\ [][NextSlash]_vars

InitExit == Init /\ mode = "exit" /\ dataDir = {}

NextExit ==
  \/ MainMissingConfig \/ MainHeightFail \/ Main
  \/ ExitQuery \/ ExitReturn \/ ExitFail \/ ExitLateAnswer \/ ExitScanEnd
  \/ ExitBatchIssue \/ ExitLookupAnswer \/ ExitBatchReturn \/ ExitBatchFail
  \/ ExitFinish
  \/ ExitFatal \/ ExitOk

SpecExit == InitExit /\ [][NextExit]_vars

\* A run in whichever mode MODE names.
InitAnyMode == Init /\ dataDir = {}

NextAnyMode == NextProof \/ NextSlash \/ NextExit

SpecAnyMode == InitAnyMode /\ [][NextAnyMode]_vars

\* ------------------------------------------------------------ the timestamp loop

\* The timestamp loop of an exit run on its own: the window scan has collected
\* WithdrawInitiated events of up to MaxLookupBlocks distinct blocks, more than
\* one batch holds.
MaxLookupBlocks == 12

\* The events collected: one in each of the blocks 1..n, and, when twice holds,
\* a second one in the last of them.
CollectedInBlocks(n, twice) ==
  [k \in 1..(n + (IF twice /\ n > 0 THEN 1 ELSE 0)) |->
     [args |-> [attester |-> IF k % 2 = 1 THEN "0xA" ELSE "0xB",
                recipient |-> "0xR", amount |-> BigOf(500)],
      transactionHash |-> k,
      blockNumber |-> Min(k, n)]]

\* The range [0, MaxLookupBlocks] was one window, and its two queries answered.
InitLookups ==
  /\ pc = "loop"
  /\ mode = "exit"
  /\ fromBlock = 0 /\ toBlock = MaxLookupBlocks /\ start = NextStart(0)
  /\ queried = <<[start |-> 0, end |-> MaxLookupBlocks, status |-> "ok"]>>
  /\ returned = << >>
  /\ proverStats = << >> /\ totalProofs = 0
  /\ attesterStats = << >> /\ totalSlashes = 0 /\ totalAmountSlashed = << >>
  /\ \E n \in 0..MaxLookupBlocks, twice \in BOOLEAN :
       initiatedEvents = CollectedInBlocks(n, twice)
  /\ finalizedEvents = << >>
  /\ blockTimestamps = << >> /\ batchIndex = 0
  /\ files = << >>
  /\ exitCode = Running
  /\ config = [SEPOLIA_RPC_URL |-> TRUE, ROLLUP_CONTRACT_ADDRESS |-> TRUE]
  /\ requests = 3 /\ inFlight = {} /\ lookups = << >>
  /\ dataDir = {}
  /\ run = 1
  /\ display = << >>

NextLookups ==
  \/ ExitScanEnd
  \/ ExitBatchIssue \/ ExitLookupAnswer \/ ExitBatchReturn \/ ExitBatchFail
  \/ ExitFinish
  \/ ExitFatal \/ ExitOk

SpecLookups == InitLookups /\ [][NextLookups]_vars

\* ------------------------------------------------------------ run after run

MaxRuns == 2

\* The indexer is started again, with the same mode and the same .env: a new
\* process, whose state is that of a first start, finds the data directory as
\* the runs before it have left it.
NextRun ==
  /\ pc = "exited"
  /\ run < MaxRuns
  /\ run' = run + 1
  /\ pc' = "main"
  /\ fromBlock' = 0 /\ toBlock' = 0 /\ start' = 0
  /\ queried' = << >> /\ returned' = << >>
  /\ proverStats' = << >> /\ totalProofs' = 0
  /\ attesterStats' = << >> /\ totalSlashes' = 0 /\ totalAmountSlashed' = << >>
  /\ initiatedEvents' = << >> /\ finalizedEvents' = << >>
  /\ blockTimestamps' = << >> /\ batchIndex' = 0
  /\ files' = << >>
  /\ exitCode' = Running
  /\ requests' = 0 /\ inFlight' = {} /\ lookups' = << >>
  /\ UNCHANGED <<config, mode, dataDir, display>>

InitRuns == Init /\ mode = "proofs"

SpecRuns == InitRuns /\ [][NextProof \/ NextRun]_vars

\* ------------------------------------------------------------ getStats

\* The reading program (src/src/getStats.js), run with the argument exit on
\* a data directory that holds at most one exit snapshot.

MaxPending == 2

MaxReads == 2

\* A pending exit as indexExitEvents writes it, initiated in block b and
\* judged at the scan's now.
StoredExit(b, k, now) ==
  [attester       |-> "0xA",
   recipient      |-> "0xR",
   amount         |-> BigToString(BigOf(500)),
   txHash         |-> k,
   ethBlockNumber |-> b,
   timestamp      |-> BlockTime(b),
   exitableAt     |-> ExitableAt(BlockTime(b)),
   canFinalize    |-> CanFinalize(now, ExitableAt(BlockTime(b)))]

\* The exit snapshots the directory may hold: pending exits of up to
\* MaxPending blocks, sorted by exitableAt as the indexer sorts them, written
\* in the second the exit of one of the blocks became exitable.
StoredBlocks == 0..MaxPending

StoredExitSnapshots ==
  {[currentTimestamp |-> ExitableAt(BlockTime(b0)),
    pendingExits |->
      Sort("exitableAt", [k \in 1..Len(bs) |-> StoredExit(bs[k], k, ExitableAt(BlockTime(b0)))])] :
     b0 \in StoredBlocks, bs \in SeqsUpTo(StoredBlocks, MaxPending)}

\* getLatestStatsFile: the place in files of the newest file of the prefix,
\* 0 when there is none.
GetLatestStatsFile(prefix) ==
  LET found == {k \in 1..Len(files) : files[k].name = prefix}
  IN  IF found = {} THEN 0 ELSE CHOOSE k \in found : \A j \in found : j <= k

\* Math.floor(Date.now() / 1000) of a reading: a second around the one in
\* which a pending exit of the snapshot becomes exitable.
ReadNows(data) ==
  {data.currentTimestamp}
    \cup {data.pendingExits[k].exitableAt + d :
           k \in 1..Len(data.pendingExits), d \in {0 - 1, 0}}

\* A reading that shows the flag the snapshot holds.
CanFinalizeStored(now, exit) == exit.canFinalize

\* now >= exit.exitableAt
CanFinalizeNow(now, exit) == now >= exit.exitableAt

\* Math.ceil((exit.exitableAt - now) / (24 * 60 * 60)), of an exit not yet exitable
DaysLeft(now, exit) == (exit.exitableAt - now + 86399) \div 86400

\* What displayExitStats prints of the pending exits: the two counts, and a
\* line of the timeline for each exit.
Shown(data, now) ==
  [now |-> now,
   canFinalizeNow |->
     Len(SelectSeq(data.pendingExits, LAMBDA exit : CanFinalizeNow(now, exit))),
   cannotFinalizeYet |->
     Len(SelectSeq(data.pendingExits, LAMBDA exit : ~CanFinalizeNow(now, exit))),
   timeline |->
     [k \in 1..Len(data.pendingExits) |->
        LET exit == data.pendingExits[k]
        IN  [attester    |-> exit.attester,
             canFinalize |-> CanFinalizeNow(now, exit),
             daysLeft    |-> IF CanFinalizeNow(now, exit) THEN 0 ELSE DaysLeft(now, exit)]]]

\* displayExitStats(): the newest exit snapshot is read and shown.
DisplayExitStats ==
  /\ pc = "stats"
  /\ GetLatestStatsFile("exit-stats") # 0
  /\ Len(display) < MaxReads
  /\ \E now \in ReadNows(files[GetLatestStatsFile("exit-stats")].data) :
       display' = Append(display, Shown(files[GetLatestStatsFile("exit-stats")].data, now))
  /\ UNCHANGED <<config, run, scanVars, start, queried, returned, proofVars, slashVars,
                 exitVars, files, exitCode, netVars, dataDir, pc>>

\* getLatestStatsFile(): there is no exit snapshot: process.exit(1).
StatsFileMissing ==
  /\ pc = "stats"
  /\ GetLatestStatsFile("exit-stats") = 0
  /\ exitCode' = 1
  /\ pc' = "exited"
  /\ UNCHANGED <<config, run, display, scanVars, start, queried, returned, proofVars,
                 slashVars, exitVars, files, netVars, dataDir>>

InitStats ==
  /\ pc = "stats"
  /\ mode = "exit"
  /\ fromBlock = 0 /\ toBlock = 0 /\ start = 0
  /\ queried = << >> /\ returned = << >>
  /\ proverStats = << >> /\ totalProofs = 0
  /\ attesterStats = << >> /\ totalSlashes = 0 /\ totalAmountSlashed = << >>
  /\ initiatedEvents = << >> /\ finalizedEvents = << >>
  /\ blockTimestamps = << >> /\ batchIndex = 0
  /\ exitCode = Running
  /\ config \in ConfigEnv
  /\ requests = 0 /\ inFlight = {} /\ lookups = << >>
  /\ run = 1
  /\ display = << >>
  /\ \/ files = << >> /\ dataDir = {}
     \/ /\ files \in {<<[name |-> "exit-stats", stamp |-> FirstStamp, data |-> data]>> :
                       data \in StoredExitSnapshots}
        /\ dataDir = {[prefix |-> "exit-stats", stamp |-> FirstStamp, run |-> 0]}

NextStats == DisplayExitStats \/ StatsFileMissing

SpecStats == InitStats /\ [][NextStats]_vars

\* ------------------------------------------------------------ properties

\* The scan loop has been left: its test start <= toBlock failed and the
\* function has returned.
Finished == pc \in {"returned", "exited"} /\ start > toBlock

WindowSize(w) == w.end - w.start + 1

\* The windows of [fromBlock, toBlock] by their closed form.
NumWindows ==
  IF fromBlock <= toBlock THEN (toBlock - fromBlock) \div CHUNK_SIZE + 1 ELSE 0

ExpectedWindow(i) ==
  [start |-> fromBlock + (i - 1) * CHUNK_SIZE,
   end   |-> Min(fromBlock + i * CHUNK_SIZE - 1, toBlock)]

SomeWindowFailed == \E i \in 1..Len(queried) : queried[i].status = "failed"

\* C1: the windows the scan loop generates are consecutive (each starts one
\* block after the end of the one before, the first at fromBlock), none is
\* empty or holds more than CHUNK_SIZE blocks, none reaches past toBlock, and
\* once the loop has ended on a range fromBlock <= toBlock the last window
\* ends at toBlock: they cover [fromBlock, toBlock] without gap or overlap.
WindowsPartitionRange ==
  /\ \A i \in 1..Len(queried) :
       /\ queried[i].start <= queried[i].end
       /\ WindowSize(queried[i]) <= CHUNK_SIZE
       /\ queried[i].end <= toBlock
       /\ queried[i].start = IF i = 1 THEN fromBlock ELSE queried[i - 1].end + 1
  /\ (Finished /\ fromBlock <= toBlock) =>
       (queried # << >> /\ queried[Len(queried)].end = toBlock)

\* A scan has ended on a range of several windows, the last a short one.
WindowsPartitionRangeWitness ==
  /\ Finished
  /\ Len(queried) >= 2
  /\ WindowSize(queried[1]) = CHUNK_SIZE
  /\ WindowSize(queried[Len(queried)]) < CHUNK_SIZE

QueriedInOrder ==
  /\ Len(queried) <= NumWindows
  /\ \A i \in 1..Len(queried) :
       /\ queried[i].start = ExpectedWindow(i).start
       /\ queried[i].end = ExpectedWindow(i).end

\* C2: whichever windows fail, the windows queried so far are always the
\* first windows of the range, each once and in ascending order (no retry,
\* no window left out), and a scan that has been entered ends having queried
\* every window.
ScanQueriesEveryWindowOnce ==
  /\ []QueriedInOrder
  /\ [](pc = "loop" => <>[](Finished /\ Len(queried) = NumWindows))

\* A scan has ended whose first window failed and whose later window was queried.
ScanQueriesEveryWindowOnceWitness ==
  /\ pc = "exited"
  /\ Len(queried) >= 2
  /\ queried[1].status = "failed"
  /\ queried[2].status = "ok"

WrittenProofs == files[1].data

\* C3: in the snapshot of a proof scan, totalProofs is the number of events
\* the successful window queries returned and uniqueProvers the number of
\* distinct prover addresses among them.
ProofTotalsCountEvents ==
  (mode = "proofs" /\ files # << >>) =>
    /\ WrittenProofs.summary.totalProofs = Len(returned)
    /\ WrittenProofs.summary.uniqueProvers =
         Cardinality({returned[i].args.proverId : i \in 1..Len(returned)})

\* A snapshot of several events of fewer provers, written after a failed window.
ProofTotalsCountEventsWitness ==
  /\ mode = "proofs" /\ files # << >>
  /\ SomeWindowFailed
  /\ WrittenProofs.summary.totalProofs = 3
  /\ WrittenProofs.summary.uniqueProvers = 2

\* The place of the first event of a prover in the stream of events.
FirstEncounter(addr) ==
  CHOOSE i \in 1..Len(returned) :
    /\ returned[i].args.proverId = addr
    /\ \A j \in 1..(i - 1) : returned[j].args.proverId # addr

\* C4: the provers of the snapshot are in descending order of proofCount, and
\* provers of equal proofCount in the order of their first events.
ProversSortedStable ==
  (mode = "proofs" /\ files # << >>) =>
    LET provers == WrittenProofs.provers
    IN  /\ Len(provers) = Len(proverStats)
        /\ \A i \in 1..Len(provers) : \A j \in (i + 1)..Len(provers) :
             /\ provers[i].proofCount >= provers[j].proofCount
             /\ provers[i].proofCount = provers[j].proofCount =>
                  FirstEncounter(provers[i].address) < FirstEncounter(provers[j].address)

\* A snapshot of three provers of equal proofCount, met in an order that is
\* not the order of their addresses.
ProversSortedStableWitness ==
  /\ mode = "proofs" /\ files # << >>
  /\ Len(WrittenProofs.provers) = 3
  /\ WrittenProofs.provers[1].address = "0xC"
  /\ WrittenProofs.provers[2].address = "0xA"
  /\ WrittenProofs.provers[1].proofCount = WrittenProofs.provers[3].proofCount

WrittenSlashes == files[1].data

\* The sum of BigInt amounts, column by column: the digits of each decimal
\* place are added up, and the carries are taken in one pass at the end.
DigitAt(a, i) == IF i <= Len(a) THEN a[i] ELSE 0

RECURSIVE ColumnTotal(_, _)
ColumnTotal(amounts, i) ==
  IF amounts = << >> THEN 0
  ELSE DigitAt(Head(amounts), i) + ColumnTotal(Tail(amounts), i)

RECURSIVE MaxLen(_)
MaxLen(amounts) ==
  IF amounts = << >> THEN 0 ELSE Max(Len(Head(amounts)), MaxLen(Tail(amounts)))

RECURSIVE CarryColumns(_, _)
CarryColumns(columns, carry) ==
  IF columns = << >> THEN BigOf(carry)
  ELSE <<(Head(columns) + carry) % 10>>
         \o CarryColumns(Tail(columns), (Head(columns) + carry) \div 10)

ExactSum(amounts) ==
  CarryColumns([i \in 1..MaxLen(amounts) |-> ColumnTotal(amounts, i)], 0)

ReturnedAmounts == [i \in 1..Len(returned) |-> returned[i].args.amount]

\* C5: in the snapshot of a slash scan, the global totalAmountSlashed is the
\* decimal string of the exact sum of the amounts of the events consumed,
\* whatever their size (2^128 and sums beyond it included).
SlashTotalIsExactSum ==
  (mode = "slash" /\ files # << >>) =>
    WrittenSlashes.summary.totalAmountSlashed = BigToString(ExactSum(ReturnedAmounts))

\* A snapshot that adds an amount of 2^128 to another amount.
SlashTotalIsExactSumWitness ==
  /\ mode = "slash" /\ files # << >>
  /\ Len(returned) = 2
  /\ returned[1].args.amount = BigOf(10)
  /\ returned[2].args.amount = TwoPow128
  /\ Len(WrittenSlashes.summary.totalAmountSlashed) = 39

WrittenExits == files[1].data

ExitWritten == mode = "exit" /\ files # << >>

\* The initiated records of every attester of the snapshot.
InitiatedRecords ==
  UNION {{WrittenExits.attesters[a].initiated[k] :
            k \in 1..Len(WrittenExits.attesters[a].initiated)} :
         a \in 1..Len(WrittenExits.attesters)}

\* C6: every initiated record carries the timestamp of its event's block,
\* an exitableAt of that timestamp plus 1209600 seconds, and a canFinalize
\* that is true exactly when the scan's one currentTimestamp has reached
\* exitableAt.
ExitMaturation ==
  ExitWritten =>
    \A r \in InitiatedRecords :
      /\ r.timestamp = BlockTime(r.ethBlockNumber)
      /\ r.exitableAt = r.timestamp + 1209600
      /\ r.canFinalize = (WrittenExits.currentTimestamp >= r.exitableAt)

\* A snapshot taken in the very second one of its exits becomes exitable,
\* with another exit that is not exitable yet.
ExitMaturationWitness ==
  /\ ExitWritten
  /\ \E r \in InitiatedRecords :
       r.exitableAt = WrittenExits.currentTimestamp /\ r.canFinalize
  /\ \E r \in InitiatedRecords :
       r.exitableAt > WrittenExits.currentTimestamp /\ ~r.canFinalize

PendingOf(address) ==
  SelectSeq(WrittenExits.pendingExits, LAMBDA e : e.attester = address)

\* C7: for every attester of the snapshot, the number of pendingExits of its
\* address is max(0, initiatedCount - finalizedCount).
PendingCountPerAttester ==
  ExitWritten =>
    \A a \in 1..Len(WrittenExits.attesters) :
      LET attester == WrittenExits.attesters[a]
      IN  Len(PendingOf(attester.address)) =
            Max(0, attester.initiatedCount - attester.finalizedCount)

\* A snapshot with an attester of a finalized and no initiated event, and an
\* attester of two pending exits.
PendingCountPerAttesterWitness ==
  /\ ExitWritten
  /\ \E a \in 1..Len(WrittenExits.attesters) :
       /\ WrittenExits.attesters[a].initiatedCount = 0
       /\ WrittenExits.attesters[a].finalizedCount = 1
  /\ \E a \in 1..Len(WrittenExits.attesters) :
       /\ WrittenExits.attesters[a].initiatedCount = 2
       /\ WrittenExits.attesters[a].finalizedCount = 0
       /\ Len(PendingOf(WrittenExits.attesters[a].address)) = 2

\* C8: for an attester with pendingCount = initiatedCount - finalizedCount > 0,
\* the pendingExits of its address are the last pendingCount entries of its
\* initiated list, in the order of that list.
PendingAreLatestInitiated ==
  ExitWritten =>
    \A a \in 1..Len(WrittenExits.attesters) :
      LET attester     == WrittenExits.attesters[a]
          pendingCount == attester.initiatedCount - attester.finalizedCount
          pending      == PendingOf(attester.address)
      IN  pendingCount > 0 =>
            /\ Len(pending) = pendingCount
            /\ \A k \in 1..pendingCount :
                 pending[k] = [attester |-> attester.address]
                                @@ attester.initiated[Len(attester.initiated) - pendingCount + k]

\* A snapshot of an attester with two initiated exits of different blocks and
\* one finalized exit.
PendingAreLatestInitiatedWitness ==
  /\ ExitWritten
  /\ \E a \in 1..Len(WrittenExits.attesters) :
       /\ WrittenExits.attesters[a].initiatedCount = 2
       /\ WrittenExits.attesters[a].finalizedCount = 1
       /\ WrittenExits.attesters[a].initiated[1].exitableAt
            < WrittenExits.attesters[a].initiated[2].exitableAt

RECURSIVE SumOfDifferences(_)
SumOfDifferences(attesters) ==
  IF attesters = << >> THEN 0
  ELSE Head(attesters).initiatedCount - Head(attesters).finalizedCount
         + SumOfDifferences(Tail(attesters))

RECURSIVE SumOfPositiveDifferences(_)
SumOfPositiveDifferences(attesters) ==
  IF attesters = << >> THEN 0
  ELSE Max(0, Head(attesters).initiatedCount - Head(attesters).finalizedCount)
         + SumOfPositiveDifferences(Tail(attesters))

\* C9, as claimed: totalPending is the sum over all attesters of
\* initiatedCount - finalizedCount.
TotalPendingIsSumOfDifferences ==
  ExitWritten =>
    WrittenExits.summary.totalPending = SumOfDifferences(WrittenExits.attesters)

\* C9, amended: totalPending is the sum over all attesters of
\* max(0, initiatedCount - finalizedCount); an attester with more finalized
\* than initiated events counts for 0.
TotalPendingIsSumOfPendingCounts ==
  ExitWritten =>
    WrittenExits.summary.totalPending = SumOfPositiveDifferences(WrittenExits.attesters)

\* A snapshot with an attester of a pending exit and an attester of more
\* finalized than initiated events.
TotalPendingIsSumOfPendingCountsWitness ==
  /\ ExitWritten
  /\ WrittenExits.summary.totalPending = 1
  /\ \E a \in 1..Len(WrittenExits.attesters) :
       WrittenExits.attesters[a].finalizedCount > WrittenExits.attesters[a].initiatedCount

PendingWith(flag) ==
  Len(SelectSeq(WrittenExits.pendingExits, LAMBDA e : e.canFinalize = flag))

\* C10: pendingCanFinalize is the number of pendingExits whose canFinalize is
\* true, pendingCannotFinalize the number of those whose canFinalize is false,
\* and the two add up to the length of pendingExits, which is totalPending.
PendingPartition ==
  ExitWritten =>
    /\ WrittenExits.summary.pendingCanFinalize = PendingWith(TRUE)
    /\ WrittenExits.summary.pendingCannotFinalize = PendingWith(FALSE)
    /\ WrittenExits.summary.pendingCanFinalize + WrittenExits.summary.pendingCannotFinalize
         = Len(WrittenExits.pendingExits)
    /\ Len(WrittenExits.pendingExits) = WrittenExits.summary.totalPending

\* A snapshot with pending exits of both kinds.
PendingPartitionWitness ==
  /\ ExitWritten
  /\ WrittenExits.summary.pendingCanFinalize >= 1
  /\ WrittenExits.summary.pendingCannotFinalize >= 1

\* C11: the pendingExits of the exit snapshot are in ascending order of
\* exitableAt, the exit that matures soonest first.
PendingSortedByExitableAt ==
  ExitWritten =>
    \A i \in 1..Len(WrittenExits.pendingExits) :
      \A j \in (i + 1)..Len(WrittenExits.pendingExits) :
        WrittenExits.pendingExits[i].exitableAt <= WrittenExits.pendingExits[j].exitableAt

\* A snapshot whose pending exits were collected attester by attester in an
\* order that is not the order of maturation: the later exit of the first
\* attester stands behind the exit of the second.
PendingSortedByExitableAtWitness ==
  /\ ExitWritten
  /\ Len(WrittenExits.pendingExits) = 3
  /\ WrittenExits.attesters[1].address = WrittenExits.pendingExits[1].attester
  /\ WrittenExits.attesters[1].initiatedCount = 2
  /\ WrittenExits.pendingExits[2].attester # WrittenExits.pendingExits[1].attester
  /\ WrittenExits.pendingExits[3].attester = WrittenExits.pendingExits[1].attester
  /\ WrittenExits.pendingExits[2].exitableAt < WrittenExits.pendingExits[3].exitableAt

LookupFailed == \E k \in 1..Len(lookups) : lookups[k].status = "failed"

\* C12: once a block-timestamp lookup of an exit run has failed, the run is
\* lost: no snapshot file is written, not even a partial one, nothing of the
\* run is left in the data directory, and the process is about to exit, or
\* has exited, with code 1.
LookupFailureIsFatal ==
  LookupFailed =>
    /\ files = << >>
    /\ dataDir = {}
    /\ \/ pc = "rejected" /\ exitCode = Running
       \/ pc = "exited" /\ exitCode = 1

\* An exit run that had collected initiated exits from windows that answered
\* has exited after a failed lookup.
LookupFailureIsFatalWitness ==
  /\ LookupFailed
  /\ pc = "exited"
  /\ Len(initiatedEvents) >= 2
  /\ Len(lookups) >= 2

NothingAttempted == requests = 0 /\ files = << >> /\ dataDir = {}

\* C13: when SEPOLIA_RPC_URL or ROLLUP_CONTRACT_ADDRESS is not set, no
\* network request (block height, log query, block lookup) is ever issued and
\* no snapshot is ever written, the exit code is never 0, and the run ends
\* with exit code 1.
MissingConfigurationIsFatal ==
  /\ [](~Configured => (NothingAttempted /\ exitCode \in {Running, 1}))
  /\ (~Configured ~> (pc = "exited" /\ exitCode = 1))

\* A run with the endpoint set and the contract address missing has exited.
MissingConfigurationIsFatalWitness ==
  /\ config.SEPOLIA_RPC_URL
  /\ ~config.ROLLUP_CONTRACT_ADDRESS
  /\ pc = "exited"

\* Every window a scan has queried has failed.
AllWindowsFailed ==
  /\ queried # << >>
  /\ \A i \in 1..Len(queried) : queried[i].status = "failed"

\* C14: a scan in which windows have failed, be it all of them, never exits
\* with a code other than 0, and it ends having written its one snapshot and
\* exited with code 0.
WindowFailuresKeepExitCode ==
  /\ [](SomeWindowFailed => exitCode \in {Running, 0})
  /\ (SomeWindowFailed ~> (pc = "exited" /\ exitCode = 0 /\ Len(files) = 1))

\* A scan of two windows that both failed has exited with its snapshot written.
WindowFailuresKeepExitCodeWitness ==
  /\ pc = "exited"
  /\ Len(queried) = 2
  /\ AllWindowsFailed
  /\ exitCode = 0
  /\ Len(files) = 1

\* What the caller of a proof scan has in hand when the run is over: the
\* snapshot and the exit code (indexProofEvents returns no value, and the
\* console is not part of the result).
CallerView == [snapshot |-> [k \in 1..Len(files) |-> files[k].data], exitCode |-> exitCode]

\* What the caller has in hand after a scan of the same range in which no
\* window failed and the windows answered with the same events.
CompleteScanView ==
  LET st == ProofEventsLoop([proverStats |-> << >>, totalProofs |-> 0], returned)
  IN  [snapshot |-> <<ProofOutput(st.proverStats, st.totalProofs)>>, exitCode |-> 0]

\* C15: after a scan in which a window failure was recovered, the caller is
\* informed that the result may be incomplete: what it has in hand differs
\* from what a scan without a failed window hands over.
CallerInformedOfFailedWindows ==
  (pc = "exited" /\ SomeWindowFailed) => CallerView # CompleteScanView

EveryWindowProcessed ==
  /\ Len(queried) = NumWindows
  /\ \A i \in 1..Len(queried) : queried[i].status \in {"ok", "failed"}

EveryTimestampResolved ==
  /\ PendingLookups = {}
  /\ ~LookupFailed
  /\ \A k \in 1..Len(initiatedEvents) :
       initiatedEvents[k].blockNumber \in DOMAIN blockTimestamps

\* C16: a run never writes more than one snapshot; the snapshot is that of
\* the pipeline of the invocation mode, and when it exists every window of the
\* range has been queried and has answered or failed and, in exit mode, the
\* timestamp of every collected initiated event is resolved; a run that exits
\* with code 0 has written exactly one snapshot.
OneSnapshotAtTheEnd ==
  /\ Len(files) <= 1
  /\ Cardinality(dataDir) = Len(files)
  /\ files # << >> =>
       /\ files[1].name = Prefix(mode)
       /\ \A f \in dataDir : f.prefix = Prefix(mode)
       /\ EveryWindowProcessed
       /\ mode = "exit" => EveryTimestampResolved
  /\ exitCode = 0 => Len(files) = 1

\* An exit run over two windows, with the blocks of its initiated events
\* looked up, has written its snapshot and exited.
OneSnapshotAtTheEndWitness ==
  /\ mode = "exit"
  /\ exitCode = 0
  /\ Len(files) = 1
  /\ Len(queried) = 2
  /\ Len(lookups) >= 2

\* The snapshot a step writes: the file of this run that the step adds to files.
Writes == Len(files') = Len(files) + 1

WrittenPrefix == files'[Len(files')].name

WrittenStamp == files'[Len(files')].stamp

ReadExits == files[GetLatestStatsFile("exit-stats")].data.pendingExits

\* C18: whatever canFinalize flag the snapshot holds, every reading shows
\* each pending exit as finalizable exactly when the reading's now has
\* reached the stored exitableAt, and counts the exits accordingly; two
\* readings with the same now show the same, and of two readings with
\* n1 < n2 the exits shown differently are exactly those with
\* n1 < exitableAt <= n2.
EligibilityRecomputedAtRead ==
  /\ \A r \in 1..Len(display) :
       /\ Len(display[r].timeline) = Len(ReadExits)
       /\ \A k \in 1..Len(ReadExits) :
            display[r].timeline[k].canFinalize = (display[r].now >= ReadExits[k].exitableAt)
       /\ display[r].canFinalizeNow =
            Cardinality({k \in 1..Len(ReadExits) : display[r].now >= ReadExits[k].exitableAt})
       /\ display[r].canFinalizeNow + display[r].cannotFinalizeYet = Len(ReadExits)
  /\ \A r \in 1..Len(display) : \A s \in 1..Len(display) :
       /\ display[r].now = display[s].now => display[r] = display[s]
       /\ display[r].now < display[s].now =>
            \A k \in 1..Len(ReadExits) :
              (display[r].timeline[k].canFinalize # display[s].timeline[k].canFinalize)
                <=> (display[r].now < ReadExits[k].exitableAt
                     /\ ReadExits[k].exitableAt <= display[s].now)

\* Two readings of a snapshot of two pending exits, the second later than
\* the first: one exit, stored as not finalizable, is shown as
\* such by the first reading and as finalizable by the second, and the other
\* exit is shown as not finalizable by both.
EligibilityRecomputedAtReadWitness ==
  /\ Len(display) = 2
  /\ display[1].now < display[2].now
  /\ Len(ReadExits) = 2
  /\ ~ReadExits[1].canFinalize
  /\ ~display[1].timeline[1].canFinalize
  /\ display[2].timeline[1].canFinalize
  /\ ~display[2].timeline[2].canFinalize

IsPrefix(s, u) == Len(s) <= Len(u) /\ SubSeq(u, 1, Len(s)) = s

\* a <= b, of BigInt values.
BigLeq(a, b) ==
  \/ Len(a) < Len(b)
  \/ /\ Len(a) = Len(b)
     /\ \/ a = b
        \/ LET top == CHOOSE i \in 1..Len(a) :
                         a[i] # b[i] /\ \A j \in (i + 1)..Len(a) : a[j] = b[j]
           IN  a[top] < b[top]

\* The step settles the window in flight as failed.
WindowFails ==
  /\ queried # << >>
  /\ Len(queried') = Len(queried)
  /\ queried[Len(queried)].status = "pending"
  /\ queried'[Len(queried)].status = "failed"

\* No step of a scan takes anything back: the totals do not decrease, every
\* record stays in its place with a counter that does not decrease and a
\* detail list that is only appended to, and the lists of collected exit
\* events are only appended to.
NothingTakenBack ==
  /\ totalProofs' >= totalProofs
  /\ Len(proverStats') >= Len(proverStats)
  /\ \A i \in 1..Len(proverStats) :
       /\ proverStats'[i].address = proverStats[i].address
       /\ proverStats'[i].proofCount >= proverStats[i].proofCount
       /\ IsPrefix(proverStats[i].blocks, proverStats'[i].blocks)
  /\ totalSlashes' >= totalSlashes
  /\ BigLeq(totalAmountSlashed, totalAmountSlashed')
  /\ Len(attesterStats') >= Len(attesterStats)
  /\ \A i \in 1..Len(attesterStats) :
       /\ attesterStats'[i].address = attesterStats[i].address
       /\ attesterStats'[i].slashCount >= attesterStats[i].slashCount
       /\ BigLeq(attesterStats[i].totalAmountSlashed, attesterStats'[i].totalAmountSlashed)
       /\ IsPrefix(attesterStats[i].slashes, attesterStats'[i].slashes)
  /\ IsPrefix(initiatedEvents, initiatedEvents')
  /\ IsPrefix(finalizedEvents, finalizedEvents')

\* C19: a step in which the query of a window fails adds no event and leaves
\* every count, total and list as it was, and no step of a scan decreases,
\* truncates or resets what has been accumulated.
FailedWindowLeavesAccumulated ==
  [][/\ NothingTakenBack
     /\ WindowFails => (/\ returned' = returned
                        /\ UNCHANGED <<proofVars, slashVars, initiatedEvents, finalizedEvents>>)]_vars

\* The second window of a scan has failed after the first had answered with
\* events of two provers, which are still counted.
FailedWindowLeavesAccumulatedWitness ==
  /\ mode = "proofs"
  /\ Len(queried) = 2
  /\ queried[1].status = "ok"
  /\ queried[2].status = "failed"
  /\ totalProofs = 3
  /\ Len(proverStats) = 2

\* The windows whose queries the loop is waiting for.
AwaitedWindows == {i \in 1..Len(queried) : queried[i].status = "pending"}

\* The queries in flight of the i-th window queried.
InFlightOf(i) ==
  {q \in inFlight : q.start = queried[i].start /\ q.end = queried[i].end}

\* C20, as claimed: at most one log query is in flight at any time.
OneLogQueryInFlight == Cardinality(inFlight) <= 1

\* C20, amended: the windows are queried one at a time, the loop waiting for
\* at most one window, the last queried, and for none while it issues the
\* queries of the next. In the proof and slash pipelines at most one log
\* query is in flight. In the exit pipeline the two queries of the awaited
\* window are in flight together, and of a window that has failed at most
\* one query is still in flight; no query of a window that has answered is.
WindowsQueriedOneAtATime ==
  /\ AwaitedWindows \subseteq {Len(queried)}
  /\ (pc = "query") = (AwaitedWindows # {})
  /\ mode \in {"proofs", "slash"} => Cardinality(inFlight) <= 1
  /\ inFlight = UNION {InFlightOf(i) : i \in 1..Len(queried)}
  /\ \A i \in 1..Len(queried) :
       /\ queried[i].status = "pending" =>
            Cardinality(InFlightOf(i)) = (IF mode = "exit" THEN 2 ELSE 1)
       /\ queried[i].status = "failed" => Cardinality(InFlightOf(i)) <= 1
       /\ queried[i].status = "ok" => InFlightOf(i) = {}

\* The two queries of the second window are in flight beside a query of
\* the first window, which has failed.
WindowsQueriedOneAtATimeWitness ==
  /\ mode = "exit"
  /\ pc = "query"
  /\ Len(queried) = 2
  /\ queried[1].status = "failed"
  /\ Cardinality(inFlight) = 3

\* The lookups a step issues.
Issued == SubSeq(lookups', Len(lookups) + 1, Len(lookups'))

\* The batch a lookup belongs to, by its place in the order of issue.
BatchOf(k) == (k - 1) \div TimestampBatch

\* C21: block lookups are issued in batches of at most 10 whose lookups are
\* all in flight together; a batch is issued only when every lookup issued
\* before it has answered; the lookups in flight are all of the latest batch,
\* so that there are never more than 10 of them.
LookupsInBatchesOfTen ==
  /\ [](/\ Cardinality(PendingLookups) <= TimestampBatch
        /\ \A k \in PendingLookups : BatchOf(k) = BatchOf(Len(lookups)))
  /\ [][Len(lookups') # Len(lookups) =>
         /\ Len(Issued) \in 1..TimestampBatch
         /\ Len(Issued) = Min(TimestampBatch, Len(UniqueBlocks) - Len(lookups))
         /\ \A k \in 1..Len(lookups) : lookups[k].status = "ok" /\ lookups'[k] = lookups[k]
         /\ \A k \in 1..Len(Issued) : Issued[k].status = "pending"]_vars

\* The first batch of 10 has answered and the lookups of a second batch are
\* in flight.
LookupsInBatchesOfTenWitness ==
  /\ Len(lookups) > TimestampBatch
  /\ \A k \in 1..TimestampBatch : lookups[k].status = "ok"
  /\ PendingLookups # {}

InitiatedBlocks == {initiatedEvents[k].blockNumber : k \in 1..Len(initiatedEvents)}

\* The lookups issued for block b.
LookedUp(b) == {k \in 1..Len(lookups) : lookups[k].block = b}

\* The timestamp loop has ended, and the aggregation is next or done.
TimestampLoopLeft ==
  \/ pc = "timestamps" /\ ~(batchIndex < Len(UniqueBlocks))
  \/ files # << >>

\* C22: in an exit run no lookup is issued before every window of the range
\* has been queried and has answered or failed; a lookup is only ever issued
\* for the block of a collected initiated event, and at most once per block;
\* when the timestamp loop is left every such block has been looked up
\* exactly once and has its timestamp stored, and every initiated record of
\* the snapshot carries the stored timestamp of its block.
LookupsOncePerInitiatedBlock ==
  /\ lookups # << >> => (mode = "exit" /\ EveryWindowProcessed /\ start > toBlock)
  /\ \A k \in 1..Len(lookups) : lookups[k].block \in InitiatedBlocks
  /\ \A b \in InitiatedBlocks : Cardinality(LookedUp(b)) <= 1
  /\ (mode = "exit" /\ TimestampLoopLeft) =>
       /\ \A b \in InitiatedBlocks :
            /\ Cardinality(LookedUp(b)) = 1
            /\ \A k \in LookedUp(b) : lookups[k].status = "ok"
            /\ b \in DOMAIN blockTimestamps
            /\ blockTimestamps[b] = BlockTime(b)
       /\ DOMAIN blockTimestamps = InitiatedBlocks
  /\ ExitWritten =>
       \A r \in InitiatedRecords : r.timestamp = blockTimestamps[r.ethBlockNumber]

\* A snapshot is written of a scan that collected two initiated events of one
\* block and a finalized event of a block without initiated event.
LookupsOncePerInitiatedBlockWitness ==
  /\ ExitWritten
  /\ \E j, k \in 1..Len(initiatedEvents) :
       j # k /\ initiatedEvents[j].blockNumber = initiatedEvents[k].blockNumber
  /\ \E k \in 1..Len(finalizedEvents) : finalizedEvents[k].blockNumber \notin InitiatedBlocks
  /\ Len(lookups) = 1

\* The windows of the given outcome that hold block b.
WindowsOf(b, status) ==
  {i \in 1..Len(queried) :
     queried[i].status = status /\ queried[i].start <= b /\ b <= queried[i].end}

\* The events a step appends to a list.
Added(events, eventsAfter) == SubSeq(eventsAfter, Len(events) + 1, Len(eventsAfter))

\* C23: in exit mode every collected event, initiated or finalized, is of a
\* window both of whose queries answered, never of a window that failed; a
\* step in which a window fails, whichever of its two queries threw and
\* whether or not the other had answered, leaves both lists as they were, and
\* a step that adds to either list is the answer of the awaited window and
\* adds events of that window only.
ExitWindowAllOrNothing ==
  /\ [](mode = "exit" =>
         \A k \in 1..CollectedExits :
           LET b == (initiatedEvents \o finalizedEvents)[k].blockNumber
           IN  WindowsOf(b, "ok") # {} /\ WindowsOf(b, "failed") = {})
  /\ [][/\ WindowFails => UNCHANGED <<initiatedEvents, finalizedEvents>>
        /\ <<initiatedEvents, finalizedEvents>>' # <<initiatedEvents, finalizedEvents>> =>
             /\ IsPrefix(initiatedEvents, initiatedEvents')
             /\ IsPrefix(finalizedEvents, finalizedEvents')
             /\ queried[Len(queried)].status = "pending"
             /\ queried'[Len(queried)].status = "ok"
             /\ LET added == Added(initiatedEvents, initiatedEvents')
                              \o Added(finalizedEvents, finalizedEvents')
                IN  \A k \in 1..Len(added) :
                      /\ queried[Len(queried)].start <= added[k].blockNumber
                      /\ added[k].blockNumber <= queried[Len(queried)].end]_vars

\* The second window of an exit scan has failed with neither of its queries
\* left in flight, and the initiated and finalized events of the first window
\* are the ones collected.
ExitWindowAllOrNothingWitness ==
  /\ mode = "exit" /\ pc = "loop"
  /\ Len(queried) = 2
  /\ queried[1].status = "ok" /\ queried[2].status = "failed"
  /\ InFlightOf(2) = {}
  /\ initiatedEvents # << >> /\ finalizedEvents # << >>

\* The sum of a field of records.
RECURSIVE SumOfField(_, _)
SumOfField(records, field) ==
  IF records = << >> THEN 0
  ELSE Head(records)[field] + SumOfField(Tail(records), field)

\* The BigInt a decimal string reads as.
BigOfString(str) == IF str = <<0>> THEN << >> ELSE Reverse(str)

\* Every record's counter is the length of its detail list.
CountersMatch(records, counter, list) ==
  \A i \in 1..Len(records) : records[i][counter] = Len(records[i][list])

\* The exit records after j passes of the loop over the initiated events, and
\* after all of them and j passes of the loop over the finalized events.
AfterInitiated(j) == InitiatedLoop(<< >>, SubSeq(initiatedEvents, 1, j), 0)

AfterFinalized(j) ==
  FinalizedLoop(AfterInitiated(Len(initiatedEvents)), SubSeq(finalizedEvents, 1, j))

ExitCountersMatch(records) ==
  /\ CountersMatch(records, "initiatedCount", "initiated")
  /\ CountersMatch(records, "finalizedCount", "finalized")

\* C24: at every point of a scan each record's counter is the length of its
\* detail list and each global total is the sum of the per-address values
\* (the BigInt total of the slashed amounts included); the same holds of
\* the exit records after every pass of the two aggregation loops, and of the
\* records and the summary of the snapshot of each mode.
CountersMatchDetailLists ==
  /\ CountersMatch(proverStats, "proofCount", "blocks")
  /\ totalProofs = SumOfField(proverStats, "proofCount")
  /\ CountersMatch(attesterStats, "slashCount", "slashes")
  /\ totalSlashes = SumOfField(attesterStats, "slashCount")
  /\ totalAmountSlashed =
       ExactSum([i \in 1..Len(attesterStats) |-> attesterStats[i].totalAmountSlashed])
  /\ (mode = "exit" /\ pc = "timestamps" /\ ~(batchIndex < Len(UniqueBlocks))) =>
       /\ \A j \in 0..Len(initiatedEvents) : ExitCountersMatch(AfterInitiated(j))
       /\ \A j \in 0..Len(finalizedEvents) : ExitCountersMatch(AfterFinalized(j))
  /\ (mode = "proofs" /\ files # << >>) =>
       /\ CountersMatch(WrittenProofs.provers, "proofCount", "blocks")
       /\ WrittenProofs.summary.totalProofs = SumOfField(WrittenProofs.provers, "proofCount")
  /\ (mode = "slash" /\ files # << >>) =>
       /\ CountersMatch(WrittenSlashes.attesters, "slashCount", "slashes")
       /\ WrittenSlashes.summary.totalSlashes =
            SumOfField(WrittenSlashes.attesters, "slashCount")
       /\ BigOfString(WrittenSlashes.summary.totalAmountSlashed) =
            ExactSum([i \in 1..Len(WrittenSlashes.attesters) |->
                        BigOfString(WrittenSlashes.attesters[i].totalAmountSlashed)])
  /\ ExitWritten =>
       /\ ExitCountersMatch(WrittenExits.attesters)
       /\ WrittenExits.summary.totalInitiated =
            SumOfField(WrittenExits.attesters, "initiatedCount")
       /\ WrittenExits.summary.totalFinalized =
            SumOfField(WrittenExits.attesters, "finalizedCount")

\* A slash scan is under way: its first window has answered with two slashes
\* of one attester, and a window is still to be queried.
CountersMatchDetailListsWitness ==
  /\ mode = "slash" /\ pc = "loop"
  /\ start <= toBlock
  /\ \E i \in 1..Len(attesterStats) : attesterStats[i].slashCount = 2
  /\ totalAmountSlashed # << >>

\* The collected events of an attester.
EventsOf(events, address) == SelectSeq(events, LAMBDA e : e.args.attester = address)

EventAttesters(events) == {events[k].args.attester : k \in 1..Len(events)}

\* The record of an address in the snapshot.
WrittenRecords(address) ==
  {a \in 1..Len(WrittenExits.attesters) : WrittenExits.attesters[a].address = address}

\* The addresses whose record has more initiated than finalized events.
Contributors ==
  {WrittenExits.attesters[a].address :
     a \in {b \in 1..Len(WrittenExits.attesters) :
              WrittenExits.attesters[b].initiatedCount
                > WrittenExits.attesters[b].finalizedCount}}

PendingOfContributors(flag) ==
  Len(SelectSeq(WrittenExits.pendingExits,
                LAMBDA e : e.attester \in Contributors /\ e.canFinalize = flag))

\* C25: in the snapshot of an exit scan every attester of a collected
\* finalized event has one record, with all its finalized events counted,
\* whether or not an initiated event of it was collected; uniqueAttesters
\* counts the attesters of the events of either kind and totalFinalized every
\* finalized event; no pending exit is of an attester whose finalizedCount is
\* at least its initiatedCount, and pendingCanFinalize and
\* pendingCannotFinalize count exits of the other attesters only.
FinalizedOnlyAttesterIsCounted ==
  ExitWritten =>
    /\ \A address \in EventAttesters(finalizedEvents) :
         /\ Cardinality(WrittenRecords(address)) = 1
         /\ \A a \in WrittenRecords(address) :
              /\ WrittenExits.attesters[a].finalizedCount
                   = Len(EventsOf(finalizedEvents, address))
              /\ WrittenExits.attesters[a].initiatedCount
                   = Len(EventsOf(initiatedEvents, address))
    /\ WrittenExits.summary.uniqueAttesters =
         Cardinality(EventAttesters(initiatedEvents) \cup EventAttesters(finalizedEvents))
    /\ WrittenExits.summary.totalFinalized = Len(finalizedEvents)
    /\ \A k \in 1..Len(WrittenExits.pendingExits) :
         WrittenExits.pendingExits[k].attester \in Contributors
    /\ WrittenExits.summary.pendingCanFinalize = PendingOfContributors(TRUE)
    /\ WrittenExits.summary.pendingCannotFinalize = PendingOfContributors(FALSE)

\* A snapshot with a record of two finalized and no initiated events, and a
\* pending exit of another attester.
FinalizedOnlyAttesterIsCountedWitness ==
  /\ ExitWritten
  /\ \E a \in 1..Len(WrittenExits.attesters) :
       /\ WrittenExits.attesters[a].initiatedCount = 0
       /\ WrittenExits.attesters[a].finalizedCount = 2
  /\ WrittenExits.summary.uniqueAttesters = 2
  /\ Len(WrittenExits.pendingExits) = 1

====
